---- MODULE Spec2Model ----
(***************************************************************************)
(* A model of the str-intern crate: the exclusive Interner (src/lib.rs),   *)
(* the Mutex-guarded sync::Interner with its LockedInterner guard, and the *)
(* OnceLock-backed GlobalInterner (src/sync.rs).                           *)
(*                                                                         *)
(* An allocation (the target of an Rc<str> / Arc<str>) is a position in    *)
(* `heap`; two handles are identity-equal (ptr_eq) iff they name the same  *)
(* position.  The set of an engine is a set of such positions, kept        *)
(* duplicate-free BY CONTENT as HashSet<InternedStr> does.                 *)
(***************************************************************************)
EXTENDS Integers, Sequences, FiniteSets, TLC

\* ---- bounds of the model ----
MaxAllocs == 2
MaxEngines == 2
NumThreads == 2
MaxIter == 2

None == 0
Allocs == 1..MaxAllocs
\* MaxEngines engines the callers construct, and one more slot for the global registry
Engines == 1..(MaxEngines + 1)
Threads == 1..NumThreads

\* The string contents the callers use, and the forms a text-like argument
\* (impl AsRef<str>) comes in.
Contents == {"a", "b"}
Forms == {"String", "str"}
Texts == [form : Forms, text : Contents]
NoStr == ""

VARIABLES
  heap,        \* Seq of [text, ptr]: the allocations made so far; ptr is "Rc" (lib.rs) or "Arc" (sync.rs)
  kind,        \* engine -> "none" | "Interner" (lib.rs) | "sync" (sync.rs)
  strings,     \* engine -> the HashSet<InternedStr> field
  owner,       \* sync engine -> thread holding the MutexGuard, or None
  poisoned,    \* sync engine -> the Mutex's poison flag
  GLOBAL,      \* the OnceLock<Interner> cell: None or the engine it holds
  once,        \* the thread running the OnceLock's initialiser, or None
  pc,          \* thread -> position in its current call
  op,          \* thread -> the call it is in
  teng,        \* thread -> the engine the call works on
  toth,        \* thread -> the other engine of a comparison (a == b), or None
  targ,        \* thread -> the str its argument views (string.as_ref()), or NoStr
  res,         \* thread -> the handle the intern it is in has got to return, or None
  seeded,      \* engine -> it was ever given a non-empty collection of existing handles
  kept,        \* an earlier returned handle a caller still holds, with what happened to its engine since
  inits,       \* how many times the OnceLock initialiser has run
  since,       \* engine -> the contents interned (or given at construction) since its last clear
  taken,       \* what the last into_set / into_iter gave its caller
  strong,      \* allocation -> its strong count (Rc::strong_count / Arc::strong_count); 0 once it is released
  held         \* allocation -> the number of handles to it that callers hold on their own

vars == <<heap, kind, strings, owner, poisoned, GLOBAL, once, pc, op, teng, toth,
          targ, res, seeded, kept, inits, since, taken, strong, held>>

engineVars == <<kind, strings, seeded, since>>
mutexVars == <<owner, poisoned>>
globalVars == <<GLOBAL, once, inits>>
threadVars == <<pc, op, teng, toth, targ, res>>
countVars == <<strong, held>>

\* ---- handles and sets of handles ----

\* string.as_ref(): the str a text-like value views
AsRef(v) == v.text

\* the content of an allocation (Deref of Rc<str> / Arc<str>)
Text(a) == heap[a].text

\* the pointer type of each engine's handles
PtrOf(k) == IF k = "Interner" THEN "Rc" ELSE "Arc"

\* HashSet::get(&str): the member whose content equals s, or None
GetNever(S, s) == None
Get(S, s) ==
  IF \E a \in S : Text(a) = s THEN CHOOSE a \in S : Text(a) = s ELSE None

\* HashSet::insert of a handle a whose content is s: keeps the set duplicate-free by content
InsertReplaces(S, a, s) == {a}
Insert(S, a, s) ==
  IF \E b \in S : Text(b) = s THEN S ELSE S \cup {a}

\* the contents of the handles in S
ContentsOf(S) == {Text(a) : a \in S}

\* a set of handles with at most one member per content: a value of type HashSet<InternedStr>
IsHashSet(S) == \A a, b \in S : Text(a) = Text(b) => a = b

\* HashSet::from_iter: insert the items in order
RECURSIVE FromIterSet(_)
FromIterSet(q) ==
  IF q = <<>> THEN {}
  ELSE Insert(FromIterSet(SubSeq(q, 1, Len(q) - 1)), q[Len(q)], Text(q[Len(q)]))

\* HashSet::eq: the same number of members, and every member of A is contained in B
SetEqPtr(A, B) == A = B
SetEq(A, B) ==
  /\ Cardinality(A) = Cardinality(B)
  /\ \A a \in A : Get(B, Text(a)) # None

\* HashSet::clear
ClearedNot(S) == S
Cleared(S) == {}

\* HashSet::clone / clone_from: the new set holds clones of the source's handles
CloneFromMerge(dst, src) == dst \cup src
CloneFromSet(dst, src) == src

\* the handles callers hold, of one pointer type: every allocation was handed
\* to a caller by the intern that made it
HeldHandles(k) == {a \in 1..Len(heap) : heap[a].ptr = PtrOf(k) /\ held[a] > 0}

\* the engine slot a constructor fills
Unused == {e \in Engines : kind[e] = "none"}
NewId == CHOOSE e \in Unused : \A f \in Unused : e <= f

\* the callers construct at most MaxEngines engines
RoomForLocal ==
  Cardinality({e \in Engines : kind[e] # "none" /\ e # GLOBAL}) < MaxEngines

\* nothing was consumed yet
NoTaken == [how |-> "none", eng |-> None, set |-> {}, seq |-> <<>>]

NoKept == [eng |-> None, alloc |-> None, via |-> "none", cleared |-> FALSE, replaced |-> FALSE]
Vias == {"Interner", "sync", "locked", "fn", "ext", "given"}
Ops == {"none", "sync", "clear", "locked", "fn", "ext", "gclear", "eq", "clone_from", "clone"}

TypeOK ==
  /\ heap \in Seq([text : Contents, ptr : {"Rc", "Arc"}])
  /\ Len(heap) <= MaxAllocs
  /\ kind \in [Engines -> {"none", "Interner", "sync", "gone"}]
  /\ strings \in [Engines -> SUBSET Allocs]
  /\ owner \in [Engines -> Threads \cup {None}]
  /\ poisoned \in [Engines -> BOOLEAN]
  /\ GLOBAL \in Engines \cup {None}
  /\ once \in Threads \cup {None}
  /\ pc \in [Threads -> {"idle", "deref", "init", "lock", "get", "ins", "clear", "guard", "drop", "panicked", "stuck",
                       "lock2", "eq", "copy", "clone"}]
  /\ op \in [Threads -> Ops]
  /\ teng \in [Threads -> Engines \cup {None}]
  /\ toth \in [Threads -> Engines \cup {None}]
  /\ targ \in [Threads -> Contents \cup {NoStr}]
  /\ res \in [Threads -> Allocs \cup {None}]
  /\ seeded \in [Engines -> BOOLEAN]
  /\ kept \in [eng : Engines, alloc : Allocs, via : Vias, cleared : BOOLEAN, replaced : BOOLEAN]
               \cup {NoKept}
  /\ inits \in Nat
  /\ since \in [Engines -> SUBSET Contents]
  /\ taken \in [how : {"none", "set", "iter", "panic"}, eng : Engines \cup {None},
                 set : SUBSET Allocs, seq : Seq(Allocs)]
  /\ strong \in Seq(Nat) /\ Len(strong) = Len(heap)
  /\ held \in Seq(Nat) /\ Len(held) = Len(heap)

Init ==
  /\ heap = <<>>
  /\ kind = [e \in Engines |-> "none"]
  /\ strings = [e \in Engines |-> {}]
  /\ owner = [e \in Engines |-> None]
  /\ poisoned = [e \in Engines |-> FALSE]
  /\ GLOBAL = None
  /\ once = None
  /\ pc = [t \in Threads |-> "idle"]
  /\ op = [t \in Threads |-> "none"]
  /\ teng = [t \in Threads |-> None]
  /\ toth = [t \in Threads |-> None]
  /\ targ = [t \in Threads |-> NoStr]
  /\ res = [t \in Threads |-> None]
  /\ seeded = [e \in Engines |-> FALSE]
  /\ kept = NoKept
  /\ inits = 0
  /\ since = [e \in Engines |-> {}]
  /\ taken = NoTaken
  /\ strong = <<>>
  /\ held = <<>>

\* ---- the strong counts ----

\* Rc::clone / Arc::clone of a handle to every allocation in S
Cloned(c, S) == [a \in DOMAIN c |-> IF a \in S THEN c[a] + 1 ELSE c[a]]

\* drop of one handle to every allocation in S; an allocation whose count
\* reaches 0 is released
DroppedFrees(c, S) == [a \in DOMAIN c |-> IF a \in S THEN 0 ELSE c[a]]
Dropped(c, S) == [a \in DOMAIN c |-> IF a \in S THEN c[a] - 1 ELSE c[a]]

\* the handles in what into_set / into_iter gave its caller
TakenHandles(tk) == tk.set \cup {tk.seq[i] : i \in DOMAIN tk.seq}

\* ---- the callers' handles ----

\* let foo0 = interner.intern(..): intern of engine e, entered through `via`,
\* returns handle a, and the caller keeps it or lets it go
Returns(e, a, via) ==
  kept' \in {kept, [eng |-> e, alloc |-> a, via |-> via, cleared |-> FALSE, replaced |-> FALSE]}

\* Interner::from_set(S) and its like make engine e from handles the caller
\* has: the caller may keep one of them to compare later
Gives(e, S) ==
  kept' \in {kept} \cup {[eng |-> e, alloc |-> a, via |-> "given", cleared |-> FALSE,
                           replaced |-> FALSE] : a \in {b \in S : held[b] > 0}}

\* what a clear of engine e means for the kept handle
KeptAfterClear(e) ==
  IF kept.eng = e THEN [kept EXCEPT !.cleared = TRUE, !.replaced = FALSE] ELSE kept

\* what a clone_from into engine e means for the kept handle
KeptAfterReplace(e) ==
  IF kept.eng = e THEN [kept EXCEPT !.replaced = TRUE] ELSE kept

\* ---- construction (both engines) ----

\* The two engine types share nothing (Rc<str> handles against Arc<str> handles,
\* no operation takes one of each), so a run of the model exercises one of them.
OneFamily(k) == \A e \in Engines : kind[e] \in {"none", "gone", k}

\* Self { strings }: a new engine instance owning the set S
ConstructEmpty(k, S) ==
  /\ RoomForLocal
  /\ OneFamily(k)
  /\ kind' = [kind EXCEPT ![NewId] = k]
  /\ strings' = [strings EXCEPT ![NewId] = {}]
  /\ seeded' = [seeded EXCEPT ![NewId] = (S # {})]
  /\ since' = [since EXCEPT ![NewId] = ContentsOf(S)]
  /\ Gives(NewId, S)
  /\ strong' = Cloned(strong, S)
  /\ UNCHANGED <<heap, mutexVars, globalVars, threadVars, taken, held>>
Construct(k, S) ==
  /\ RoomForLocal
  /\ OneFamily(k)
  /\ kind' = [kind EXCEPT ![NewId] = k]
  /\ strings' = [strings EXCEPT ![NewId] = S]
  /\ seeded' = [seeded EXCEPT ![NewId] = (S # {})]
  /\ since' = [since EXCEPT ![NewId] = ContentsOf(S)]
  /\ Gives(NewId, S)
  /\ strong' = Cloned(strong, S)
  /\ UNCHANGED <<heap, mutexVars, globalVars, threadVars, taken, held>>

\* the sets a caller can pass to from_set: HashSet values over handles it holds
FromSetInputs(k) == {S \in SUBSET HeldHandles(k) : IsHashSet(S)}

\* the iterators a caller can pass to from_iter: handles it holds, in any order, repeats allowed
FromIterInputs(k) ==
  UNION {[1..n -> HeldHandles(k)] : n \in 0..MaxIter}

\* ---- the exclusive engine, src/lib.rs ----

XNew == Construct("Interner", {})

XWithHasher == Construct("Interner", {})

XDefault == Construct("Interner", {})

XFromSet(S) == Construct("Interner", S)

XFromIter(q) == Construct("Interner", FromIterSet(q))

\* the handle Interner::intern / LockedInterner::intern gives for content s on
\* the set S: the member found, else a new allocation
InternResultShared(S, s) ==
  IF Get(S, s) # None THEN Get(S, s)
  ELSE IF \E a \in 1..Len(heap) : Text(a) = s
       THEN CHOOSE a \in 1..Len(heap) : Text(a) = s
       ELSE Len(heap) + 1
InternResult(S, s) ==
  IF Get(S, s) # None THEN Get(S, s) ELSE Len(heap) + 1

\* the set after that call: unchanged on a hit, the new handle inserted on a miss
InternSetForgets(S, s) == S
InternSet(S, s) ==
  IF Get(S, s) # None THEN S ELSE Insert(S, Len(heap) + 1, s)

\* the heap after that call: one allocation on a miss, none on a hit
InternHeapAlways(S, s, p) == Append(heap, [text |-> s, ptr |-> p])
InternHeap(S, s, p) ==
  IF Get(S, s) # None THEN heap ELSE Append(heap, [text |-> s, ptr |-> p])

\* the counts after that call: a hit clones the member, a miss allocates (count
\* 1) and inserts a clone (count 2); the caller gets the handle, and lets it go
\* at once when it has one to that allocation already
InternStrong(S, s) ==
  IF Get(S, s) # None
  THEN Dropped(Cloned(strong, {Get(S, s)}), {a \in {Get(S, s)} : held[a] > 0})
  ELSE Append(strong, 2)

InternHeld(S, s) ==
  IF Get(S, s) # None THEN [held EXCEPT ![Get(S, s)] = 1] ELSE Append(held, 1)

XIntern(e, v) ==
  /\ kind[e] = "Interner"
  /\ Len(InternHeap(strings[e], AsRef(v), "Rc")) <= MaxAllocs
  /\ heap' = InternHeap(strings[e], AsRef(v), "Rc")
  /\ strings' = [strings EXCEPT ![e] = InternSet(@, AsRef(v))]
  /\ Returns(e, InternResult(strings[e], AsRef(v)), "Interner")
  /\ since' = [since EXCEPT ![e] = @ \cup {AsRef(v)}]
  /\ strong' = InternStrong(strings[e], AsRef(v))
  /\ held' = InternHeld(strings[e], AsRef(v))
  /\ UNCHANGED <<kind, seeded, mutexVars, globalVars, threadVars, taken>>

XClear(e) ==
  /\ kind[e] = "Interner"
  /\ strings' = [strings EXCEPT ![e] = Cleared(@)]
  /\ since' = [since EXCEPT ![e] = {}]
  /\ kept' = KeptAfterClear(e)
  /\ strong' = Dropped(strong, strings[e])
  /\ UNCHANGED <<heap, kind, seeded, mutexVars, globalVars, threadVars, taken, held>>

XClone(e) ==
  /\ kind[e] = "Interner"
  /\ Construct("Interner", CloneFromSet({}, strings[e]))

XCloneFrom(d, s) ==
  /\ kind[d] = "Interner" /\ kind[s] = "Interner"
  /\ d # s
  /\ strings' = [strings EXCEPT ![d] = CloneFromSet(@, strings[s])]
  /\ seeded' = [seeded EXCEPT ![d] = @ \/ strings[s] # {}]
  /\ since' = [since EXCEPT ![d] = since[s]]
  /\ kept' = KeptAfterReplace(d)
  /\ strong' = Dropped(Cloned(strong, CloneFromSet(strings[d], strings[s])), strings[d])
  /\ UNCHANGED <<heap, kind, mutexVars, globalVars, threadVars, taken, held>>

\* the orders in which an iterator over the set S can yield its members
Orderings(S) ==
  {q \in [1..Cardinality(S) -> S] : \A i, j \in 1..Cardinality(S) : q[i] = q[j] => i = j}

\* what a caller gets: the set itself (into_set), or its members one by one (into_iter)
AsSet(e, S) == [how |-> "set", eng |-> e, set |-> S, seq |-> <<>>]
AsIterShort(e, q) == [how |-> "iter", eng |-> e, set |-> {}, seq |-> SubSeq(q, 2, Len(q))]
AsIter(e, q) == [how |-> "iter", eng |-> e, set |-> {}, seq |-> q]
AsPanic(e) == [how |-> "panic", eng |-> e, set |-> {}, seq |-> <<>>]

\* the engine e is moved into the call and is gone afterwards; the caller has tk
Consume(e, tk) ==
  /\ kind' = [kind EXCEPT ![e] = "gone"]
  /\ strings' = [strings EXCEPT ![e] = {}]
  /\ taken' = tk
  /\ strong' = Dropped(Dropped(strong, TakenHandles(taken)), strings[e] \ TakenHandles(tk))
  /\ UNCHANGED <<heap, seeded, since, mutexVars, globalVars, threadVars, kept, held>>

\* Interner::into_set (lib.rs): self.strings
XIntoSet(e) ==
  /\ kind[e] = "Interner"
  /\ Consume(e, AsSet(e, strings[e]))

\* IntoIterator for Interner (lib.rs): self.strings.into_iter()
XIntoIter(e) ==
  /\ kind[e] = "Interner"
  /\ \E q \in Orderings(strings[e]) : Consume(e, AsIter(e, q))

\* PartialEq for Interner (lib.rs): self.strings.eq(&other.strings)
XEq(a, b) == SetEq(strings[a], strings[b])

\* ---- the shared engine, src/sync.rs ----

SNew == Construct("sync", {})

\* Interner::from_set (sync.rs): Mutex::new(strings)
SFromSet(S) == Construct("sync", S)

\* a call is over: it returned ("idle") or it panicked ("panicked")
Finish(t, how) ==
  /\ pc' = [pc EXCEPT ![t] = how]
  /\ op' = [op EXCEPT ![t] = "none"]
  /\ teng' = [teng EXCEPT ![t] = None]
  /\ toth' = [toth EXCEPT ![t] = None]
  /\ targ' = [targ EXCEPT ![t] = NoStr]

\* a thread calls intern(v) ("sync"), clear() or lock() ("locked") on a shared engine it has a reference to
SCall(t, e, o, v) ==
  /\ pc[t] = "idle"
  /\ kind[e] = "sync"
  /\ pc' = [pc EXCEPT ![t] = "lock"]
  /\ op' = [op EXCEPT ![t] = o]
  /\ teng' = [teng EXCEPT ![t] = e]
  /\ targ' = [targ EXCEPT ![t] = IF o = "sync" THEN AsRef(v) ELSE NoStr]
  /\ res' = [res EXCEPT ![t] = None]
  /\ UNCHANGED <<heap, engineVars, mutexVars, globalVars, toth, kept, taken, countVars>>

\* Mutex::lock of strings(): may the thread take the mutex now?
MutexFreeAlways(e) == TRUE
MutexFree(e) == owner[e] = None

\* .expect(POISON_MESSAGE): does the acquisition go through?
LockOkNever(e) == FALSE
LockOkAlways(e) == TRUE
LockOk(e) == ~poisoned[e]

\* where a call goes once it holds the guard
AfterLock(o) ==
  IF o \in {"clear", "gclear"} THEN "clear"
  ELSE IF o = "locked" THEN "guard"
  ELSE IF o \in {"eq", "clone_from"} THEN "lock2"
  ELSE IF o = "clone" THEN "clone"
  ELSE "get"

\* where a call goes once its intern on the guard is done
AfterInternKeeps(o) == "guard"
AfterIntern(o) == IF o = "locked" THEN "guard" ELSE "drop"

\* Interner::strings: block until the mutex is free; panic if it is poisoned
Acquire(t) ==
  /\ pc[t] = "lock"
  /\ MutexFree(teng[t])
  /\ IF LockOk(teng[t])
     THEN /\ owner' = [owner EXCEPT ![teng[t]] = t]
          /\ pc' = [pc EXCEPT ![t] = AfterLock(op[t])]
          /\ UNCHANGED <<op, teng, toth, targ>>
     ELSE /\ Finish(t, "panicked")
          /\ UNCHANGED owner
  /\ UNCHANGED <<heap, engineVars, poisoned, globalVars, res, kept, taken, countVars>>

\* LockedInterner::intern, the lookup: self.strings.get(string)
SGet(t) ==
  /\ pc[t] = "get"
  /\ LET hit == Get(strings[teng[t]], targ[t])
     IN IF hit # None
        THEN /\ res' = [res EXCEPT ![t] = hit]
             /\ pc' = [pc EXCEPT ![t] = AfterIntern(op[t])]
             /\ Returns(teng[t], hit, op[t])
             /\ since' = [since EXCEPT ![teng[t]] = @ \cup {targ[t]}]
             /\ strong' = InternStrong(strings[teng[t]], targ[t])
             /\ held' = InternHeld(strings[teng[t]], targ[t])
        ELSE /\ pc' = [pc EXCEPT ![t] = "ins"]
             /\ UNCHANGED <<res, kept, since, countVars>>
  /\ UNCHANGED <<heap, kind, strings, seeded, mutexVars, globalVars, op, teng, toth, targ, taken>>

\* LockedInterner::intern, the miss: Arc::from(string), insert a clone, return it
SIns(t) ==
  /\ pc[t] = "ins"
  /\ Len(heap) < MaxAllocs
  /\ heap' = Append(heap, [text |-> targ[t], ptr |-> "Arc"])
  /\ strings' = [strings EXCEPT ![teng[t]] = Insert(@, Len(heap) + 1, targ[t])]
  /\ res' = [res EXCEPT ![t] = Len(heap) + 1]
  /\ pc' = [pc EXCEPT ![t] = AfterIntern(op[t])]
  /\ Returns(teng[t], Len(heap) + 1, op[t])
  /\ since' = [since EXCEPT ![teng[t]] = @ \cup {targ[t]}]
  /\ strong' = Append(strong, 2)
  /\ held' = Append(held, 1)
  /\ UNCHANGED <<kind, seeded, mutexVars, globalVars, op, teng, toth, targ, taken>>

\* Interner::clear under its own guard
SClear(t) ==
  /\ pc[t] = "clear"
  /\ strings' = [strings EXCEPT ![teng[t]] = Cleared(@)]
  /\ since' = [since EXCEPT ![teng[t]] = {}]
  /\ kept' = KeptAfterClear(teng[t])
  /\ pc' = [pc EXCEPT ![t] = "drop"]
  /\ strong' = Dropped(strong, strings[teng[t]])
  /\ UNCHANGED <<heap, kind, seeded, mutexVars, globalVars, op, teng, toth, targ, res, taken, held>>

\* LockedInterner::intern called by the holder of the guard
GuardIntern(t, v) ==
  /\ pc[t] = "guard" /\ op[t] = "locked"
  /\ targ' = [targ EXCEPT ![t] = AsRef(v)]
  /\ res' = [res EXCEPT ![t] = None]
  /\ pc' = [pc EXCEPT ![t] = "get"]
  /\ UNCHANGED <<heap, engineVars, mutexVars, globalVars, op, teng, toth, kept, taken, countVars>>

\* LockedInterner::clear called by the holder of the guard
GuardClear(t) ==
  /\ pc[t] = "guard" /\ op[t] = "locked"
  /\ strings' = [strings EXCEPT ![teng[t]] = Cleared(@)]
  /\ since' = [since EXCEPT ![teng[t]] = {}]
  /\ kept' = KeptAfterClear(teng[t])
  /\ strong' = Dropped(strong, strings[teng[t]])
  /\ UNCHANGED <<heap, kind, seeded, mutexVars, globalVars, threadVars, taken, held>>

\* the MutexGuard is dropped: end of the temporary of intern()/clear(), or of the LockedInterner's scope
DropGuardKeeps(t) ==
  /\ pc[t] \in {"drop", "guard"}
  /\ Finish(t, "idle")
  /\ res' = [res EXCEPT ![t] = None]
  /\ UNCHANGED <<heap, engineVars, mutexVars, globalVars, kept, taken, countVars>>
DropGuard(t) ==
  /\ pc[t] \in {"drop", "guard"}
  /\ owner' = [owner EXCEPT ![teng[t]] = None]
  /\ Finish(t, "idle")
  /\ res' = [res EXCEPT ![t] = None]
  /\ UNCHANGED <<heap, engineVars, poisoned, globalVars, kept, taken, countVars>>

\* a panic on the thread that holds the guard (in as_ref() of the argument, or in
\* the caller's code inside the LockedInterner's scope): unwinding drops the
\* guard, which poisons the mutex
Fault(t) ==
  /\ \/ pc[t] = "get"
     \/ pc[t] = "guard" /\ op[t] = "locked"
  /\ poisoned' = [poisoned EXCEPT ![teng[t]] = TRUE]
  /\ owner' = [owner EXCEPT ![teng[t]] = None]
  /\ res' = [res EXCEPT ![t] = None]
  /\ Finish(t, "panicked")
  /\ UNCHANGED <<heap, engineVars, globalVars, kept, taken, countVars>>

\* the panic is over (the thread is joined, or catch_unwind returns): the context goes on
Unwind(t) ==
  /\ pc[t] = "panicked"
  /\ pc' = [pc EXCEPT ![t] = "idle"]
  /\ UNCHANGED <<heap, engineVars, mutexVars, globalVars, op, teng, toth, targ, res, kept, taken, countVars>>

\* a caller can move the engine only when no reference to it is out: no thread
\* is in a call on it, and it is not the static registry
Owned(e) == e # GLOBAL /\ \A t \in Threads : teng[t] # e

\* Mutex::into_inner().expect(POISON_MESSAGE): does it give the set?
IntoInnerOkAlways(e) == TRUE
IntoInnerOk(e) == ~poisoned[e]

\* Interner::into_set (sync.rs)
SIntoSet(e) ==
  /\ kind[e] = "sync"
  /\ Owned(e)
  /\ IF IntoInnerOk(e)
     THEN Consume(e, AsSet(e, strings[e]))
     ELSE Consume(e, AsPanic(e))

\* IntoIterator for Interner (sync.rs): self.into_set().into_iter()
SIntoIter(e) ==
  /\ kind[e] = "sync"
  /\ Owned(e)
  /\ IF IntoInnerOk(e)
     THEN \E q \in Orderings(strings[e]) : Consume(e, AsIter(e, q))
     ELSE Consume(e, AsPanic(e))

\* The holder of a LockedInterner calls intern(), clear() or lock() on the engine
\* itself: Mutex::lock on a mutex the thread already holds never returns; it
\* blocks for ever or it panics, and the panic unwinds through the guard, which
\* poisons the mutex ("may panic if this Interner is already locked on this thread").
Relock(t) ==
  /\ pc[t] = "guard" /\ op[t] = "locked"
  /\ \/ /\ pc' = [pc EXCEPT ![t] = "stuck"]
        /\ UNCHANGED <<mutexVars, op, teng, toth, targ>>
     \/ /\ poisoned' = [poisoned EXCEPT ![teng[t]] = TRUE]
        /\ owner' = [owner EXCEPT ![teng[t]] = None]
        /\ Finish(t, "panicked")
  /\ res' = [res EXCEPT ![t] = None]
  /\ UNCHANGED <<heap, engineVars, globalVars, kept, taken, countVars>>

\* PartialEq for Interner (sync.rs): self.strings().eq(&other.strings());
\* the call starts with the lock of self
SEqCall(t, a, b) ==
  /\ pc[t] = "idle"
  /\ kind[a] = "sync" /\ kind[b] = "sync"
  /\ pc' = [pc EXCEPT ![t] = "lock"]
  /\ op' = [op EXCEPT ![t] = "eq"]
  /\ teng' = [teng EXCEPT ![t] = a]
  /\ toth' = [toth EXCEPT ![t] = b]
  /\ UNCHANGED <<heap, engineVars, mutexVars, globalVars, targ, res, kept, taken, countVars>>

\* where a call goes once it holds the guards of both engines
AfterLock2(o) == IF o = "clone_from" THEN "copy" ELSE "eq"

\* other.strings(), while the guard of self is held.  If other is self the
\* thread locks a mutex it holds (it blocks for ever, or panics); if other is
\* poisoned the expect panics; either panic unwinds through the guard of self
\* and poisons self.
Acquire2(t) ==
  /\ pc[t] = "lock2"
  /\ IF toth[t] = teng[t]
     THEN \/ /\ pc' = [pc EXCEPT ![t] = "stuck"]
             /\ UNCHANGED <<mutexVars, op, teng, toth, targ>>
          \/ /\ poisoned' = [poisoned EXCEPT ![teng[t]] = TRUE]
             /\ owner' = [owner EXCEPT ![teng[t]] = None]
             /\ Finish(t, "panicked")
     ELSE /\ MutexFree(toth[t])
          /\ IF LockOk(toth[t])
             THEN /\ owner' = [owner EXCEPT ![toth[t]] = t]
                  /\ pc' = [pc EXCEPT ![t] = AfterLock2(op[t])]
                  /\ UNCHANGED <<poisoned, op, teng, toth, targ>>
             ELSE /\ poisoned' = [poisoned EXCEPT ![teng[t]] = TRUE]
                  /\ owner' = [owner EXCEPT ![teng[t]] = None]
                  /\ Finish(t, "panicked")
  /\ UNCHANGED <<heap, engineVars, globalVars, res, kept, taken, countVars>>

\* the value the comparison of thread t returns
EqResult(t) == SetEq(strings[teng[t]], strings[toth[t]])

\* HashSet::eq under both guards; then both guards are dropped and the call returns
SEqDone(t) ==
  /\ pc[t] = "eq"
  /\ owner' = [e \in Engines |-> IF e \in {teng[t], toth[t]} THEN None ELSE owner[e]]
  /\ Finish(t, "idle")
  /\ UNCHANGED <<heap, engineVars, poisoned, globalVars, res, kept, taken, countVars>>

\* Clone::clone for Interner (sync.rs):
\* Interner { strings: Mutex::new(self.strings().clone()) }; the call starts
\* with the lock of self
SCloneCall(t, e) ==
  /\ pc[t] = "idle"
  /\ kind[e] = "sync"
  /\ RoomForLocal
  /\ pc' = [pc EXCEPT ![t] = "lock"]
  /\ op' = [op EXCEPT ![t] = "clone"]
  /\ teng' = [teng EXCEPT ![t] = e]
  /\ UNCHANGED <<heap, engineVars, mutexVars, globalVars, toth, targ, res, kept, taken, countVars>>

\* HashSet::clone under the guard, Mutex::new of the copy; the guard is dropped
\* and the call returns the new engine
SCloneDone(t) ==
  /\ pc[t] = "clone"
  /\ RoomForLocal
  /\ kind' = [kind EXCEPT ![NewId] = "sync"]
  /\ strings' = [strings EXCEPT ![NewId] = CloneFromSet({}, strings[teng[t]])]
  /\ seeded' = [seeded EXCEPT ![NewId] = (strings[teng[t]] # {})]
  /\ since' = [since EXCEPT ![NewId] = ContentsOf(strings[teng[t]])]
  /\ Gives(NewId, strings[teng[t]])
  /\ strong' = Cloned(strong, CloneFromSet({}, strings[teng[t]]))
  /\ owner' = [owner EXCEPT ![teng[t]] = None]
  /\ Finish(t, "idle")
  /\ UNCHANGED <<heap, poisoned, globalVars, res, taken, held>>

\* Clone::clone_from for Interner (sync.rs):
\* self.strings().clone_from(&source.strings()); self is borrowed mutably, so
\* no other call is on it and source is another engine; the call starts with
\* the lock of self
SCloneFromCall(t, d, s) ==
  /\ pc[t] = "idle"
  /\ kind[d] = "sync" /\ kind[s] = "sync"
  /\ d # s /\ Owned(d) /\ \A u \in Threads : toth[u] # d
  /\ pc' = [pc EXCEPT ![t] = "lock"]
  /\ op' = [op EXCEPT ![t] = "clone_from"]
  /\ teng' = [teng EXCEPT ![t] = d]
  /\ toth' = [toth EXCEPT ![t] = s]
  /\ UNCHANGED <<heap, engineVars, mutexVars, globalVars, targ, res, kept, taken, countVars>>

\* HashSet::clone_from under both guards; then both guards are dropped and the call returns
SCloneFromDone(t) ==
  /\ pc[t] = "copy"
  /\ strings' = [strings EXCEPT ![teng[t]] = CloneFromSet(@, strings[toth[t]])]
  /\ seeded' = [seeded EXCEPT ![teng[t]] = @ \/ strings[toth[t]] # {}]
  /\ since' = [since EXCEPT ![teng[t]] = since[toth[t]]]
  /\ kept' = KeptAfterReplace(teng[t])
  /\ strong' = Dropped(Cloned(strong, CloneFromSet(strings[teng[t]], strings[toth[t]])),
                       strings[teng[t]])
  /\ owner' = [e \in Engines |-> IF e \in {teng[t], toth[t]} THEN None ELSE owner[e]]
  /\ Finish(t, "idle")
  /\ UNCHANGED <<heap, kind, poisoned, globalVars, res, taken, held>>

\* ---- the global registry, src/sync.rs ----

\* a thread calls the free function intern(v) ("fn"), v.intern() ("ext") or
\* GlobalInterner.clear() ("gclear"): each starts with a deref of GlobalInterner
GCall(t, o, v) ==
  /\ pc[t] = "idle"
  /\ pc' = [pc EXCEPT ![t] = "deref"]
  /\ op' = [op EXCEPT ![t] = o]
  /\ targ' = [targ EXCEPT ![t] = IF o = "gclear" THEN NoStr ELSE AsRef(v)]
  /\ res' = [res EXCEPT ![t] = None]
  /\ UNCHANGED <<heap, engineVars, mutexVars, globalVars, teng, toth, kept, taken, countVars>>

\* the registry the free function works on: GlobalInterner.intern(string)
FnRegistryAny == CHOOSE e \in Engines : kind[e] = "sync"
FnRegistry == GLOBAL

\* the registry the extension method works on: it calls intern(self)
ExtRegistryOwn ==
  IF \E e \in Engines : kind[e] = "sync" /\ e # GLOBAL
  THEN CHOOSE e \in Engines : kind[e] = "sync" /\ e # GLOBAL
  ELSE GLOBAL
ExtRegistry == FnRegistry

\* the engine a call that came through the global entry points ends up on
Registry(o) == IF o = "ext" THEN ExtRegistry ELSE FnRegistry

\* OnceLock::get_or_init: may this thread run the initialiser now?
OnceRacy == TRUE
OnceFree == once = None

\* GLOBAL.get_or_init(Interner::new), the cell is set: the reference to its engine
DerefGet(t) ==
  /\ pc[t] = "deref"
  /\ GLOBAL # None
  /\ teng' = [teng EXCEPT ![t] = Registry(op[t])]
  /\ pc' = [pc EXCEPT ![t] = "lock"]
  /\ UNCHANGED <<heap, engineVars, mutexVars, globalVars, op, toth, targ, res, kept, taken, countVars>>

\* GLOBAL.get_or_init(Interner::new), the cell is empty: one thread becomes the initialiser
DerefInit(t) ==
  /\ pc[t] = "deref"
  /\ GLOBAL = None
  /\ OnceFree
  /\ once' = t
  /\ pc' = [pc EXCEPT ![t] = "init"]
  /\ UNCHANGED <<heap, engineVars, mutexVars, GLOBAL, inits, op, teng, toth, targ, res, kept, taken, countVars>>

\* the initialiser runs Interner::new and stores the engine in the cell
InitDone(t) ==
  /\ pc[t] = "init"
  /\ Unused # {}
  /\ OneFamily("sync")
  /\ kind' = [kind EXCEPT ![NewId] = "sync"]
  /\ GLOBAL' = NewId
  /\ once' = None
  /\ inits' = inits + 1
  /\ teng' = [teng EXCEPT ![t] = NewId]
  /\ pc' = [pc EXCEPT ![t] = "lock"]
  /\ UNCHANGED <<heap, strings, seeded, since, mutexVars, op, toth, targ, res, kept, taken, countVars>>

\* ---- the specifications ----

\* the constructors and the operations of the exclusive engine
NextX ==
  \/ XNew
  \/ XWithHasher
  \/ XDefault
  \/ \E S \in FromSetInputs("Interner") : XFromSet(S)
  \/ \E q \in FromIterInputs("Interner") : XFromIter(q)
  \/ \E e \in Engines, v \in Texts : XIntern(e, v)
  \/ \E e \in Engines : XClear(e)
  \/ \E e \in Engines : XClone(e)
  \/ \E d, s \in Engines : XCloneFrom(d, s)

\* the calls of the threads on shared engines they hold a reference to
NextS ==
  \/ \E t \in Threads, e \in Engines, o \in {"sync", "clear", "locked"}, v \in Texts : SCall(t, e, o, v)
  \/ \E t \in Threads : Acquire(t)
  \/ \E t \in Threads : SGet(t)
  \/ \E t \in Threads : SIns(t)
  \/ \E t \in Threads : SClear(t)
  \/ \E t \in Threads, v \in Texts : GuardIntern(t, v)
  \/ \E t \in Threads : GuardClear(t)
  \/ \E t \in Threads : DropGuard(t)

\* a thread may also panic while it holds the guard, and go on afterwards
NextP ==
  \/ NextS
  \/ \E t \in Threads : Fault(t)
  \/ \E t \in Threads : Unwind(t)

\* one shared engine, constructed empty (Interner::new), that every thread has a reference to
InitS ==
  /\ heap = <<>>
  /\ kind = [e \in Engines |-> IF e = 1 THEN "sync" ELSE "none"]
  /\ strings = [e \in Engines |-> {}]
  /\ owner = [e \in Engines |-> None]
  /\ poisoned = [e \in Engines |-> FALSE]
  /\ GLOBAL = None
  /\ once = None
  /\ pc = [t \in Threads |-> "idle"]
  /\ op = [t \in Threads |-> "none"]
  /\ teng = [t \in Threads |-> None]
  /\ toth = [t \in Threads |-> None]
  /\ targ = [t \in Threads |-> NoStr]
  /\ res = [t \in Threads |-> None]
  /\ seeded = [e \in Engines |-> FALSE]
  /\ kept = NoKept
  /\ inits = 0
  /\ since = [e \in Engines |-> {}]
  /\ taken = NoTaken
  /\ strong = <<>>
  /\ held = <<>>

\* The crate's engines: either the program builds exclusive engines and works on
\* them, or its threads share one shared engine.
Next == NextX \/ NextS

Spec == (Init \/ InitS) /\ [][Next]_vars

\* a program of exclusive engines (at most two: constructed empty or cloned), or
\* a program of threads sharing one engine: the calls that return handles and
\* the calls that reset an engine's set
NextId ==
  \/ kind[1] # "sync" /\ kind[2] = "none" /\ XNew
  \/ kind[1] # "sync" /\ \E e \in Engines, v \in Texts : XIntern(e, v)
  \/ kind[1] # "sync" /\ \E e \in Engines : XClear(e)
  \/ kind[1] # "sync" /\ kind[2] = "none" /\ \E e \in Engines : XClone(e)
  \/ kind[1] # "sync" /\ \E d, s \in Engines : XCloneFrom(d, s)
  \/ NextS

\* a program of at most two exclusive engines, constructed empty, from handles
\* the caller holds, or by clone
NextSep ==
  \/ kind[2] = "none" /\ XNew
  \/ kind[2] = "none" /\ \E S \in FromSetInputs("Interner") : XFromSet(S)
  \/ kind[2] = "none" /\ \E q \in FromIterInputs("Interner") : XFromIter(q)
  \/ \E e \in Engines, v \in Texts : XIntern(e, v)
  \/ \E e \in Engines : XClear(e)
  \/ kind[2] = "none" /\ \E e \in Engines : XClone(e)
  \/ \E d, s \in Engines : XCloneFrom(d, s)

SpecSep == Init /\ [][NextSep]_vars

SpecId == (Init \/ InitS) /\ [][NextId]_vars

\* the threads sharing one shared engine, panics included
SpecS == InitS /\ [][NextP]_vars

\* the threads only intern, directly or through a LockedInterner: no clear, no panic
NextConv ==
  \/ \E t \in Threads, e \in Engines, o \in {"sync", "locked"}, v \in Texts : SCall(t, e, o, v)
  \/ \E t \in Threads : Acquire(t)
  \/ \E t \in Threads : SGet(t)
  \/ \E t \in Threads : SIns(t)
  \/ \E t \in Threads, v \in Texts : GuardIntern(t, v)
  \/ \E t \in Threads : DropGuard(t)

SpecConv == InitS /\ [][NextConv]_vars

\* the threads sharing one shared engine, where the holder of a LockedInterner
\* may also call the engine itself
NextR ==
  \/ NextS
  \/ \E t \in Threads : Relock(t)
  \/ \E t \in Threads : Unwind(t)

SpecR == InitS /\ [][NextR]_vars

\* two shared engines, constructed empty, that every thread has a reference to
InitEq ==
  /\ heap = <<>>
  /\ kind = [e \in Engines |-> IF e \in {1, 2} THEN "sync" ELSE "none"]
  /\ strings = [e \in Engines |-> {}]
  /\ owner = [e \in Engines |-> None]
  /\ poisoned = [e \in Engines |-> FALSE]
  /\ GLOBAL = None
  /\ once = None
  /\ pc = [t \in Threads |-> "idle"]
  /\ op = [t \in Threads |-> "none"]
  /\ teng = [t \in Threads |-> None]
  /\ toth = [t \in Threads |-> None]
  /\ targ = [t \in Threads |-> NoStr]
  /\ res = [t \in Threads |-> None]
  /\ seeded = [e \in Engines |-> FALSE]
  /\ kept = NoKept
  /\ inits = 0
  /\ since = [e \in Engines |-> {}]
  /\ taken = NoTaken
  /\ strong = <<>>
  /\ held = <<>>

\* engines that are interned into, and pairs of distinct engines that are compared
NextEq ==
  \/ XNew
  \/ \E e \in Engines, v \in Texts : XIntern(e, v)
  \/ \E e \in Engines : XClear(e)
  \/ \E t \in Threads, e \in Engines, v \in Texts : SCall(t, e, "sync", v)
  \/ \E t \in Threads : Acquire(t)
  \/ \E t \in Threads : SGet(t)
  \/ \E t \in Threads : SIns(t)
  \/ \E t \in Threads : DropGuard(t)
  \/ \E t \in Threads, a, b \in Engines : a # b /\ SEqCall(t, a, b)
  \/ \E t \in Threads : Acquire2(t)
  \/ \E t \in Threads : SEqDone(t)

SpecEq == (Init \/ InitEq) /\ [][NextEq]_vars

\* engines made from sets of handles the caller has, and interned into; the
\* shared engines are used by one context
NextSeed ==
  \/ XNew
  \/ \E S \in FromSetInputs("Interner") : XFromSet(S)
  \/ \E e \in Engines, v \in Texts : XIntern(e, v)
  \/ \E e \in Engines : XClear(e)
  \/ SNew
  \/ \E S \in FromSetInputs("sync") : SFromSet(S)
  \/ \E e \in Engines, v \in Texts : SCall(1, e, "sync", v)
  \/ Acquire(1)
  \/ SGet(1)
  \/ SIns(1)
  \/ DropGuard(1)

SpecSeed == Init /\ [][NextSeed]_vars

\* engines that are interned into, cleared, and in the end consumed
NextInto ==
  \/ XNew
  \/ \E S \in FromSetInputs("Interner") : XFromSet(S)
  \/ \E e \in Engines, v \in Texts : XIntern(e, v)
  \/ \E e \in Engines : XClear(e)
  \/ \E e \in Engines : XIntoSet(e)
  \/ \E e \in Engines : XIntoIter(e)
  \/ NextS
  \/ \E e \in Engines : SIntoSet(e)
  \/ \E e \in Engines : SIntoIter(e)

SpecInto == (Init \/ InitS) /\ [][NextInto]_vars

\* a shared engine that its threads use, may poison, and that is consumed in the end
NextIntoP ==
  \/ NextP
  \/ \E e \in Engines : SIntoSet(e)
  \/ \E e \in Engines : SIntoIter(e)

SpecIntoP == InitS /\ [][NextIntoP]_vars

\* the calls of the threads in T that go through the global registry
NextGlobal(T) ==
  \/ \E t \in T, o \in {"fn", "ext", "gclear"}, v \in Texts : GCall(t, o, v)
  \/ \E t \in T : DerefGet(t)
  \/ \E t \in T : DerefInit(t)
  \/ \E t \in T : InitDone(t)
  \/ \E t \in T : Acquire(t)
  \/ \E t \in T : SGet(t)
  \/ \E t \in T : SIns(t)
  \/ \E t \in T : SClear(t)
  \/ \E t \in T : DropGuard(t)

\* every thread uses the global registry, from its first access on
SpecOnce == Init /\ [][NextGlobal(Threads)]_vars

\* one context uses the global registry and a local shared engine side by side
NextG ==
  \/ NextGlobal({1})
  \/ \E e \in Engines, o \in {"sync", "clear"}, v \in Texts : SCall(1, e, o, v)

SpecG == InitS /\ [][NextG]_vars

\* ---- the claims ----

\* the kept handle was returned by engine e
KeptOn(e) == kept # NoKept /\ kept.eng = e

\* since the kept handle was returned, its engine's set was neither cleared nor replaced
KeptLive == kept # NoKept /\ ~kept.cleared /\ ~kept.replaced

\* the handle XIntern(e, v) returns
XReturn(e, v) == InternResult(strings[e], AsRef(v))

\* the step in which the intern of thread t gets the handle it returns
SReturns(t) == (SGet(t) \/ SIns(t)) /\ res'[t] # None

\* C1 as stated: an intern(s) that follows an earlier intern(s) on the same
\* engine with no clear between them returns the earlier handle and adds no entry.
C1_NoClearBetween ==
  [][ /\ \A e \in Engines, v \in Texts :
           KeptOn(e) /\ ~kept.cleared /\ Text(kept.alloc) = AsRef(v) /\ XIntern(e, v)
             => XReturn(e, v) = kept.alloc /\ strings'[e] = strings[e]
      /\ \A t \in Threads :
           KeptOn(teng[t]) /\ ~kept.cleared /\ Text(kept.alloc) = targ[t] /\ SReturns(t)
             => res'[t] = kept.alloc /\ strings'[teng[t]] = strings[teng[t]]
    ]_vars

\* C1 amended: an intern(s) that follows an earlier intern(s) on the same engine
\* with no clear of it and no clone_from into it between them returns the
\* earlier handle (identity-equal) and adds no entry.
C1_IdentityAliasing ==
  [][ /\ \A e \in Engines, v \in Texts :
           KeptOn(e) /\ KeptLive /\ Text(kept.alloc) = AsRef(v) /\ XIntern(e, v)
             => XReturn(e, v) = kept.alloc /\ strings'[e] = strings[e]
      /\ \A t \in Threads :
           KeptOn(teng[t]) /\ KeptLive /\ Text(kept.alloc) = targ[t] /\ SReturns(t)
             => res'[t] = kept.alloc /\ strings'[teng[t]] = strings[teng[t]]
    ]_vars

\* C1 witness: a handle returned through a LockedInterner is kept, and a later
\* Interner::intern of the same content has just returned the same handle
C1_Witness ==
  /\ KeptLive /\ kept.via = "locked"
  /\ \E t \in Threads : pc[t] = "drop" /\ op[t] = "sync" /\ res[t] = kept.alloc

\* C2: while the threads only intern on one shared engine, under every
\* interleaving at most one allocation is ever made per content, the set holds
\* exactly one entry for a content that is being returned, and every intern
\* returns the handle that any earlier intern of that content returned.
C2_Convergence ==
  /\ [](/\ \A s \in Contents : Cardinality({a \in 1..Len(heap) : Text(a) = s}) <= 1
        /\ \A t \in Threads : res[t] # None =>
             /\ res[t] \in strings[teng[t]]
             /\ Cardinality({a \in strings[teng[t]] : Text(a) = Text(res[t])}) = 1)
  /\ [][ \A t \in Threads :
           kept # NoKept /\ Text(kept.alloc) = targ[t] /\ SReturns(t)
             => res'[t] = kept.alloc
       ]_vars

\* C2 witness: a thread has got the handle an earlier intern returned, while all
\* the other threads are in their own intern of the same content
C2_Witness ==
  /\ kept # NoKept
  /\ \E t \in Threads :
       /\ pc[t] = "drop" /\ op[t] = "sync" /\ res[t] = kept.alloc
       /\ \A u \in Threads \ {t} : pc[u] = "lock" /\ targ[u] = targ[t]

\* C3: the set of every engine holds at most one handle per content.
C3_Uniqueness ==
  \A e \in Engines : \A a, b \in strings[e] : Text(a) = Text(b) => a = b

\* C3 witness: an engine that was given existing handles holds two entries
C3_Witness ==
  \E e \in Engines : seeded[e] /\ Cardinality(strings[e]) = 2

C5_ClearIndependence ==
  [][ /\ \A e \in Engines, v \in Texts :
           KeptOn(e) /\ kept.cleared /\ ~kept.replaced
             /\ Text(kept.alloc) = AsRef(v) /\ XIntern(e, v)
             => /\ XReturn(e, v) # kept.alloc
                /\ heap'[XReturn(e, v)].text = Text(kept.alloc)
                /\ strings[e] = {} => XReturn(e, v) = Len(heap) + 1 /\ Len(heap') = Len(heap) + 1
      /\ \A t \in Threads :
           KeptOn(teng[t]) /\ kept.cleared /\ ~kept.replaced
             /\ Text(kept.alloc) = targ[t] /\ SReturns(t)
             => /\ res'[t] # kept.alloc
                /\ heap'[res'[t]].text = Text(kept.alloc)
                /\ strings[teng[t]] = {} => res'[t] = Len(heap) + 1 /\ Len(heap') = Len(heap) + 1
      /\ \A a \in 1..Len(heap) : heap'[a] = heap[a]
    ]_vars

\* C5 witness: the kept handle's engine was cleared and now holds another
\* allocation of the same content
C5_Witness ==
  /\ kept # NoKept /\ kept.cleared /\ ~kept.replaced
  /\ \E a \in strings[kept.eng] : a # kept.alloc /\ Text(a) = Text(kept.alloc)

\* C6: a poisoned mutex stays poisoned; a thread that gets to a poisoned mutex
\* panics instead of taking the guard; nobody holds the guard of a poisoned
\* engine, and its set is never changed again.
C6_PoisonPermanent ==
  /\ [](\A e \in Engines : poisoned[e] =>
          /\ owner[e] = None
          /\ \A t \in Threads : teng[t] = e => pc[t] = "lock")
  /\ [][ \A e \in Engines : poisoned[e] =>
           /\ poisoned'[e]
           /\ strings'[e] = strings[e]
           /\ \A t \in Threads :
                pc[t] = "lock" /\ teng[t] = e /\ pc'[t] # "lock" => pc'[t] = "panicked"
       ]_vars

\* C6 witness: the engine is poisoned and two threads have panicked on it
C6_Witness ==
  /\ poisoned[1]
  /\ \E t, u \in Threads : t # u /\ pc[t] = "panicked" /\ pc[u] = "panicked"

\* C7 as stated: an intern of one engine never returns a handle that an intern
\* of another engine returned.
C7_NeverShared ==
  [][ \A e \in Engines, v \in Texts :
        kept # NoKept /\ kept.eng # e /\ XIntern(e, v)
          => XReturn(e, v) # kept.alloc
    ]_vars

\* C7 amended: two engines that were never given existing handles (constructed
\* empty, never the target of a clone_from from a non-empty engine) never return
\* the same handle.
C7_SeparateUnlessSeeded ==
  [][ \A e \in Engines, v \in Texts :
        kept # NoKept /\ kept.eng # e /\ ~seeded[e] /\ ~seeded[kept.eng]
          /\ XIntern(e, v)
          => XReturn(e, v) # kept.alloc
    ]_vars

\* C7 witness: two engines that were never given handles each hold their own
\* allocation of the same content
C7_Witness ==
  /\ kept # NoKept /\ ~seeded[kept.eng]
  /\ \E e \in Engines :
       /\ e # kept.eng /\ kind[e] = "Interner" /\ ~seeded[e]
       /\ \E a \in strings[e] : Text(a) = Text(kept.alloc) /\ a # kept.alloc

\* C8: the initialiser of the global registry runs at most once; every call
\* that went through the deref works on the engine in the cell; once set, the
\* cell never changes.
C8_InitOnce ==
  /\ [](/\ inits <= 1
        /\ (GLOBAL = None) = (inits = 0)
        /\ \A t \in Threads : teng[t] # None => teng[t] = GLOBAL)
  /\ [][GLOBAL # None => GLOBAL' = GLOBAL /\ kind'[GLOBAL] = "sync"]_vars

\* C8 witness: all threads are working on the one global engine at once
C8_Witness ==
  /\ inits = 1
  /\ \A t \in Threads : teng[t] = GLOBAL
  /\ \E t, u \in Threads : op[t] = "fn" /\ op[u] = "ext"

\* C9: with no clear of the global registry in between, the free function and
\* the extension method return the same handle for the same content.
C9_FnAndExtAgree ==
  [][ \A t \in Threads :
        op[t] \in {"fn", "ext"} /\ kept.via \in {"fn", "ext"}
          /\ kept.via # op[t] /\ ~kept.cleared /\ Text(kept.alloc) = targ[t]
          /\ SReturns(t)
          => res'[t] = kept.alloc
    ]_vars

\* C9 witness: the handle kept from intern(..) is the one "..".intern() has just returned
C9_Witness ==
  /\ kept.via = "fn" /\ ~kept.cleared
  /\ \E t \in Threads : pc[t] = "drop" /\ op[t] = "ext" /\ res[t] = kept.alloc

\* C10: of a handle from the global entry points and a handle from intern on a
\* local engine made by Interner::new, for the same content, the two are
\* content-equal and not identity-equal; an intern changes the set of its own
\* engine only.
C10_GlobalVsLocal ==
  [][ /\ \A t \in Threads :
           /\ kept # NoKept /\ Text(kept.alloc) = targ[t]
           /\ \/ kept.via \in {"fn", "ext"} /\ op[t] = "sync" /\ teng[t] # GLOBAL
              \/ op[t] \in {"fn", "ext"} /\ kept.via = "sync" /\ kept.eng # GLOBAL
           /\ SReturns(t)
           => res'[t] # kept.alloc /\ heap'[res'[t]].text = Text(kept.alloc)
      /\ \A t \in Threads :
           SGet(t) \/ SIns(t) =>
             \A e \in Engines : e # teng[t] => strings'[e] = strings[e]
    ]_vars

\* C10 witness: the same content is held by the global registry and by the
\* local engine, in two allocations, one of them just returned
C10_Witness ==
  /\ kept.via \in {"fn", "ext"} /\ kept.eng = GLOBAL
  /\ \E t \in Threads :
       /\ pc[t] = "drop" /\ op[t] = "sync" /\ teng[t] = 1 /\ GLOBAL # 1
       /\ res[t] # kept.alloc /\ Text(res[t]) = Text(kept.alloc)

\* C11 as stated: no call on an engine that is not poisoned fails or blocks for
\* ever, whichever context makes it.
C11_AlwaysReturns ==
  [][ \A t \in Threads :
        teng[t] # None /\ ~poisoned[teng[t]] => pc'[t] \notin {"panicked", "stuck"}
    ]_vars

\* C11 amended: a call fails or blocks for ever only when it finds the engine
\* poisoned at its lock, or when its own context already holds the engine's
\* LockedInterner; every other intern and clear goes through its lock while the
\* mutex is free, and holds the guard of an unpoisoned engine until it returns.
C11_ReturnsUnlessRelocked ==
  /\ [][ \A t \in Threads :
           pc'[t] \in {"panicked", "stuck"} /\ pc[t] \notin {"panicked", "stuck"}
             => \/ pc[t] = "lock" /\ poisoned[teng[t]]
                \/ pc[t] = "guard" /\ op[t] = "locked" /\ owner[teng[t]] = t
       ]_vars
  /\ [](\A t \in Threads :
          /\ pc[t] = "lock" /\ owner[teng[t]] = None => ENABLED Acquire(t)
          /\ pc[t] \in {"get", "ins", "clear", "drop"} =>
               owner[teng[t]] = t /\ ~poisoned[teng[t]]
          /\ pc[t] \in {"get", "clear", "drop"} =>
               ENABLED (SGet(t) \/ SClear(t) \/ DropGuard(t)))

\* C11 witness: on an engine that is not poisoned, one thread's intern has its
\* handle and another thread's clear waits for the lock
C11_Witness ==
  /\ ~poisoned[1]
  /\ \E t, u \in Threads :
       /\ pc[t] = "drop" /\ op[t] = "sync" /\ res[t] # None
       /\ pc[u] = "lock" /\ op[u] = "clear"

\* the members a sequence yields
Yielded(q) == {q[i] : i \in 1..Len(q)}

\* C12: consuming a shared engine (into_set, into_iter) panics when the engine
\* is poisoned and gives nothing; otherwise it gives the whole set, every
\* member once; what a caller has got never comes from a poisoned engine.
C12_ConsumePoisoned ==
  /\ [](/\ taken.how \in {"set", "iter"} => ~poisoned[taken.eng]
        /\ taken.how = "panic" => poisoned[taken.eng] /\ taken.set = {} /\ taken.seq = <<>>)
  /\ [][ \A e \in Engines :
           kind[e] = "sync" /\ kind'[e] = "gone" /\ ~poisoned[e]
             => \/ taken'.how = "set" /\ taken'.set = strings[e]
                \/ /\ taken'.how = "iter"
                   /\ Yielded(taken'.seq) = strings[e]
                   /\ Len(taken'.seq) = Cardinality(strings[e])
       ]_vars

\* C12 witness: a poisoned shared engine that held an entry was consumed, and the call panicked
C12_Witness ==
  /\ taken.how = "panic"
  /\ kind[taken.eng] = "gone" /\ poisoned[taken.eng]
  /\ since[taken.eng] # {}

\* how many members an intern of content s adds to the set S
Growth(S, s) == IF s \in ContentsOf(S) THEN 0 ELSE 1

\* C13: an intern of a content other than the kept handle's returns another
\* handle; every intern makes the member count grow by one if its content was
\* not a member and by nothing if it was, so that the count is the number of
\* distinct contents interned since the last clear.
C13_DistinctAndCounted ==
  /\ [](\A e \in Engines :
          kind[e] \in {"Interner", "sync"} => Cardinality(strings[e]) = Cardinality(since[e]))
  /\ [][ /\ \A e \in Engines, v \in Texts :
              kind[e] = "Interner" /\ XIntern(e, v)
                => /\ KeptOn(e) /\ Text(kept.alloc) # AsRef(v) => XReturn(e, v) # kept.alloc
                   /\ Cardinality(strings'[e])
                        = Cardinality(strings[e]) + Growth(strings[e], AsRef(v))
         /\ \A t \in Threads :
              pc[t] \in {"get", "ins"} /\ SReturns(t)
                => /\ KeptOn(teng[t]) /\ Text(kept.alloc) # targ[t] => res'[t] # kept.alloc
                   /\ Cardinality(strings'[teng[t]])
                        = Cardinality(strings[teng[t]]) + Growth(strings[teng[t]], targ[t])
       ]_vars

\* C13 witness: an engine that started empty holds one handle for each of two
\* contents, one of them the kept handle
C13_Witness ==
  /\ kept # NoKept /\ ~kept.cleared /\ ~seeded[kept.eng]
  /\ since[kept.eng] = Contents
  /\ \E a \in strings[kept.eng] : a # kept.alloc /\ Text(a) # Text(kept.alloc)

\* C14: what into_set gives, and what into_iter yields, is one handle for each
\* content interned (or given at construction) since the engine's last clear,
\* each content once, and nothing else.
C14_ConsumeTotal ==
  /\ taken.how = "set" =>
       /\ ContentsOf(taken.set) = since[taken.eng]
       /\ IsHashSet(taken.set)
  /\ taken.how = "iter" =>
       /\ ContentsOf(Yielded(taken.seq)) = since[taken.eng]
       /\ Len(taken.seq) = Cardinality(since[taken.eng])

\* C14 witness: an engine was cleared after it returned the kept handle, then
\* interned that content again, and its consuming iteration yielded the new
\* handle and not the kept one
C14_Witness ==
  /\ taken.how = "iter" /\ Len(taken.seq) = 1
  /\ KeptOn(taken.eng) /\ kept.cleared
  /\ kept.alloc \notin Yielded(taken.seq)
  /\ Text(kept.alloc) \in ContentsOf(Yielded(taken.seq))

\* C15: two engines of one type compare equal exactly when they hold the same
\* contents, whatever allocations back the entries; a comparison of shared
\* engines reads both sets while it holds both locks.
C15_SetEquality ==
  /\ \A a, b \in Engines :
       kind[a] \in {"Interner", "sync"} /\ kind[b] = kind[a]
         => (SetEq(strings[a], strings[b]) <=> ContentsOf(strings[a]) = ContentsOf(strings[b]))
  /\ \A t \in Threads :
       pc[t] = "eq" =>
         /\ owner[teng[t]] = t /\ owner[toth[t]] = t
         /\ EqResult(t) <=> ContentsOf(strings[teng[t]]) = ContentsOf(strings[toth[t]])

\* C15 witness: a comparison of two shared engines is about to return TRUE for
\* two engines that hold the same content in different allocations
C15_Witness ==
  \E t \in Threads :
    /\ pc[t] = "eq" /\ EqResult(t)
    /\ strings[teng[t]] # {}
    /\ strings[teng[t]] \cap strings[toth[t]] = {}

\* C16: on an engine made from a set S (and not cleared or replaced since), an
\* intern of a content of S returns the very handle S held, allocates nothing
\* and leaves the set as it is; an intern of a content the set does not hold
\* makes one new allocation and adds it, as on an empty engine.
C16_FromSetInterned ==
  [][ /\ \A e \in Engines, v \in Texts :
           kind[e] = "Interner" /\ XIntern(e, v)
             => /\ KeptOn(e) /\ kept.via = "given" /\ KeptLive /\ Text(kept.alloc) = AsRef(v)
                  => /\ XReturn(e, v) = kept.alloc
                     /\ heap' = heap
                     /\ strings'[e] = strings[e]
                /\ AsRef(v) \notin ContentsOf(strings[e])
                  => /\ XReturn(e, v) = Len(heap) + 1
                     /\ Len(heap') = Len(heap) + 1
                     /\ strings'[e] = strings[e] \cup {Len(heap) + 1}
      /\ \A t \in Threads :
           pc[t] \in {"get", "ins"} /\ SReturns(t)
             => /\ KeptOn(teng[t]) /\ kept.via = "given" /\ KeptLive /\ Text(kept.alloc) = targ[t]
                  => /\ res'[t] = kept.alloc
                     /\ heap' = heap
                     /\ strings'[teng[t]] = strings[teng[t]]
                /\ targ[t] \notin ContentsOf(strings[teng[t]])
                  => /\ res'[t] = Len(heap) + 1
                     /\ Len(heap') = Len(heap) + 1
                     /\ strings'[teng[t]] = strings[teng[t]] \cup {Len(heap) + 1}
    ]_vars

\* C16 witness: a shared engine was made from a set that held the kept handle,
\* and an intern on it has just returned that handle
C16_Witness ==
  /\ KeptLive /\ kept.via = "given" /\ kind[kept.eng] = "sync"
  /\ pc[1] = "drop" /\ teng[1] = kept.eng /\ res[1] = kept.alloc

\* the threads that are past the lock of engine e and have not given it back
Holders(e) ==
  {t \in Threads : teng[t] = e /\ pc[t] \in {"get", "ins", "clear", "drop", "guard", "stuck"}}

\* C17: at most one thread at a time holds the guard of a shared engine, and it
\* is the mutex's owner; the set of the engine changes only in a step of the
\* thread that holds its guard (an insert or a clear of that thread).
C17_MutualExclusion ==
  /\ [](\A e \in Engines :
          /\ Cardinality(Holders(e)) <= 1
          /\ \A t \in Holders(e) : owner[e] = t
          /\ owner[e] # None => owner[e] \in Holders(e))
  /\ [][ \A e \in Engines :
           kind[e] = "sync" /\ strings'[e] # strings[e]
             => /\ owner[e] # None /\ owner[e] \in Holders(e)
                /\ SIns(owner[e]) \/ SClear(owner[e]) \/ GuardClear(owner[e])
       ]_vars

\* C17 witness: a thread holds a LockedInterner whose set has an entry, while
\* all the other threads wait at the lock, one to clear and one to intern
C17_Witness ==
  \E t \in Threads :
    /\ pc[t] = "guard" /\ op[t] = "locked" /\ owner[1] = t /\ strings[1] # {}
    /\ \A u \in Threads \ {t} : pc[u] = "lock" /\ op[u] \in {"clear", "sync"}

\* is content s a hit in set S?
Hit(S, s) == \E a \in S : Text(a) = s

\* what one intern step that returns handle r for content s on set S (S2 after
\* the step) must have done
GetOrInsert(S, S2, s, r) ==
  /\ r \in S2 /\ heap'[r].text = s
  /\ \A b \in S2 : heap'[b].text = s => b = r
  /\ IF Hit(S, s)
     THEN heap' = heap /\ S2 = S /\ r \in S
     ELSE /\ Len(heap') = Len(heap) + 1 /\ SubSeq(heap', 1, Len(heap)) = heap
          /\ r = Len(heap') /\ r \notin S /\ S2 = S \cup {r}

\* C18: an intern that hits returns the member of the set for its content,
\* allocates nothing and leaves the set as it was; one that misses makes exactly
\* one allocation, inserts it and returns it; either way the handle returned is
\* the set's member for the content when the call returns, so the heap grows by
\* one on every miss and on nothing else that intern does.
C18_GetOrInsert ==
  [][ /\ \A e \in Engines, v \in Texts :
           kind[e] = "Interner" /\ XIntern(e, v)
             => /\ GetOrInsert(strings[e], strings'[e], AsRef(v), XReturn(e, v))
                /\ kept' # kept => kept'.alloc = XReturn(e, v)
      /\ \A t \in Threads :
           pc[t] \in {"get", "ins"} /\ (SGet(t) \/ SIns(t))
             => IF res'[t] # None
                THEN GetOrInsert(strings[teng[t]], strings'[teng[t]], targ[t], res'[t])
                ELSE heap' = heap /\ strings' = strings /\ ~Hit(strings[teng[t]], targ[t])
    ]_vars

\* C18 witness: on a set made from the caller's handles an intern has hit and
\* returned the very handle the caller gave; the set holds two handles
C18_Witness ==
  /\ pc[1] = "drop" /\ res[1] # None /\ seeded[teng[1]]
  /\ kept.via = "given" /\ kept.eng = teng[1] /\ kept.alloc = res[1]
  /\ res[1] \in strings[teng[1]]
  /\ Cardinality(strings[teng[1]]) = 2

\* ---- the single call against the scoped form ----

\* Engine 2 is worked on through a LockedInterner by thread 2; every operation
\* made on that guard is then made on engine 1 by thread 1 with the single
\* call (interner.intern(string) against interner.lock().intern(string),
\* interner.clear() against interner.lock().clear()).
NextPair ==
  \/ \E v \in Texts : pc[1] = "idle" /\ SCall(2, 2, "locked", v)
  \/ Acquire(2)
  \/ \E v \in Texts :
       pc[1] = "idle" /\ SetEq(strings[1], strings[2]) /\ GuardIntern(2, v)
  \/ pc[1] = "idle" /\ SetEq(strings[1], strings[2]) /\ GuardClear(2)
  \/ SGet(2)
  \/ SIns(2)
  \/ pc[1] = "idle" /\ SetEq(strings[1], strings[2]) /\ DropGuard(2)
  \/ \E v \in Texts :
       /\ pc[2] = "guard" /\ strings[2] # {} /\ res[2] # None /\ AsRef(v) = targ[2]
       /\ SCall(1, 1, "sync", v)
  \/ \E v \in Texts :
       pc[2] = "guard" /\ strings[2] = {} /\ SCall(1, 1, "clear", v)
  \/ Acquire(1)
  \/ SGet(1)
  \/ SIns(1)
  \/ SClear(1)
  \/ DropGuard(1)

SpecPair == InitEq /\ [][NextPair]_vars

\* C19: interner.intern(s) and interner.clear() do what lock(), one intern(s)
\* or clear() on the guard, and the drop of the guard do: the single call takes
\* the lock, makes one operation and gives the lock back (it never stays in a
\* scope, and the mutex is free when it has returned); its result has the
\* content of the scoped form's result, and the set it leaves equals the set
\* the scoped form left.
C19_SingleCallIsScoped ==
  /\ [](/\ \A t \in Threads : pc[t] = "guard" => op[t] = "locked"
        /\ pc[1] = "idle" => owner[1] = None
        /\ pc[1] = "drop" =>
             /\ owner[1] = 1
             /\ SetEq(strings[1], strings[2])
             /\ op[1] = "sync" => res[1] # None /\ Text(res[1]) = Text(res[2]))
  /\ [][ /\ pc[1] = "lock" => pc'[1] \in {"lock", "get", "clear"}
         /\ pc[1] = "get" => pc'[1] \in {"get", "ins", "drop"}
         /\ pc[1] \in {"ins", "clear"} => pc'[1] \in {pc[1], "drop"}
         /\ pc[1] = "drop" => pc'[1] \in {"drop", "idle"}
         /\ pc[1] \in {"get", "ins", "clear", "drop"} /\ pc'[1] = pc[1]
              => strings'[1] = strings[1]
       ]_vars

\* C19 witness: the single call has interned what the guard's holder interned
\* and is about to give the lock back; both sets hold one handle for the content
C19_Witness ==
  /\ pc[1] = "drop" /\ op[1] = "sync" /\ pc[2] = "guard"
  /\ res[1] \in strings[1] /\ res[2] \in strings[2] /\ res[1] # res[2]

\* ---- progress on the lock ----

\* the steps of thread t that are the engine's own code: taking the mutex when
\* it is free, the operation under the guard, and the drop of the temporary
\* guard of a single call (the end of a LockedInterner's scope is the caller's)
EngineStep(t) ==
  \/ Acquire(t)
  \/ SGet(t)
  \/ SIns(t)
  \/ SClear(t)
  \/ pc[t] = "drop" /\ DropGuard(t)

\* Every thread that can run does run (the scheduler is fair to threads).
\* std's Mutex promises nothing about which waiter gets a free mutex, so the
\* acquisition gets weak fairness only.
NextFair ==
  \/ \E t \in Threads, e \in Engines, o \in {"sync", "clear", "locked"}, v \in Texts : SCall(t, e, o, v)
  \/ \E t \in Threads : Acquire(t)
  \/ \E t \in Threads : SGet(t)
  \/ \E t \in Threads : SIns(t)
  \/ \E t \in Threads : SClear(t)
  \/ \E t \in Threads : DropGuard(t)

SpecFair == InitS /\ [][NextFair]_vars /\ \A t \in Threads : WF_vars(EngineStep(t))

\* every thread that takes the lock gives it back
AllRelease == \A t \in Threads : []<>(owner[1] # t)

\* every thread blocked in lock(), intern() or clear() gets the lock and completes
AllComplete == \A t \in Threads : (pc[t] = "lock") ~> (pc[t] \in {"guard", "idle"})

\* the mutex hands itself to every waiter that finds it free again and again
FairMutex == \A t \in Threads : SF_vars(Acquire(t))

\* C20 as stated: the drop of the guard frees the lock, and when every thread
\* that takes the lock gives it back, every blocked thread gets the lock and
\* completes its call.
C20_EveryWaiterAcquires ==
  /\ [][\A t \in Threads : DropGuard(t) => owner'[teng[t]] = None]_vars
  /\ AllRelease => AllComplete

\* C20 amended: the drop of the guard frees the lock; when every thread that
\* takes the lock gives it back, a waiter is never left before a free mutex
\* (some thread takes it), and every blocked thread gets the lock and completes
\* its call provided the mutex is fair to its waiters.
C20_FairWaiterAcquires ==
  /\ [][\A t \in Threads : DropGuard(t) => owner'[teng[t]] = None]_vars
  /\ (\E t \in Threads : pc[t] = "lock") ~> (owner[1] # None)
  /\ AllRelease /\ FairMutex => AllComplete

\* C20 witness: the guard has been dropped and the lock is free again while
\* another thread is still blocked on it, and a set-entry exists
C20_Witness ==
  /\ owner[1] = None /\ strings[1] # {}
  /\ \E t \in Threads : pc[t] = "lock" /\ op[t] = "locked"
  /\ \E u \in Threads : pc[u] = "idle"

\* ---- the lifetime of the handles ----

\* a caller lets go of a handle it holds (drop of an InternedStr); the handle
\* it keeps for later comparisons and one a call is returning stay
CallerDrop(a) ==
  /\ a \in 1..Len(heap)
  /\ held[a] > 0
  /\ kept.alloc # a
  /\ \A t \in Threads : res[t] # a
  /\ held' = [held EXCEPT ![a] = @ - 1]
  /\ strong' = Dropped(strong, {a})
  /\ UNCHANGED <<heap, engineVars, mutexVars, globalVars, threadVars, kept, taken>>

\* an exclusive engine goes out of scope: its HashSet is dropped, and with it
\* one handle to each member
XDrop(e) ==
  /\ kind[e] = "Interner"
  /\ kind' = [kind EXCEPT ![e] = "gone"]
  /\ strings' = [strings EXCEPT ![e] = {}]
  /\ kept' = KeptAfterClear(e)
  /\ strong' = Dropped(strong, strings[e])
  /\ UNCHANGED <<heap, seeded, since, mutexVars, globalVars, threadVars, taken, held>>

\* an engine, with one more that is its clone or is made from the caller's
\* handles: they are interned into, cleared, consumed and dropped, by a caller
\* that lets go of handles
NextRc ==
  \/ kind[1] = "none" /\ XNew
  \/ \E e \in Engines, v \in Texts : XIntern(e, v)
  \/ \E e \in Engines : XClear(e)
  \/ kind[2] = "none" /\ XClone(1)
  \/ \E S \in FromSetInputs("Interner") : kind[1] # "none" /\ kind[2] = "none" /\ XFromSet(S)
  \/ \E e \in Engines : XIntoSet(e)
  \/ \E e \in Engines : XDrop(e)
  \/ \E a \in Allocs : CallerDrop(a)
  \/ kind[1] = "none" /\ SNew
  \/ \E e \in Engines, o \in {"sync", "clear"}, v \in Texts : SCall(1, e, o, v)
  \/ Acquire(1)
  \/ SGet(1)
  \/ SIns(1)
  \/ SClear(1)
  \/ DropGuard(1)

SpecRc == Init /\ [][NextRc]_vars

\* the number of storage sets allocation a is a member of
Members(a) == Cardinality({e \in Engines : a \in strings[e]})

\* the number of handles to allocation a that callers hold: on their own, or
\* in a set that into_set gave them
CallerHandles(a) == held[a] + (IF a \in TakenHandles(taken) THEN 1 ELSE 0)

\* C21 as stated: the strong count of an allocation is 1 if it is a member of
\* a storage set, else 0, plus the number of handles that callers hold.
C21_OneForTheSet ==
  \A a \in 1..Len(heap) :
    strong[a] = (IF Members(a) > 0 THEN 1 ELSE 0) + CallerHandles(a)

\* C21 amended: the strong count of an allocation is the number of storage sets
\* it is a member of (a clone of an engine shares the allocations) plus the
\* number of handles that callers hold; an allocation is released (count 0)
\* only when nothing holds it and it is never used again, so whatever clear,
\* the drop of an engine and into_set do, a handle a caller still holds keeps
\* its allocation and its content.
C21_HolderCount ==
  /\ [](/\ \A a \in 1..Len(heap) : strong[a] = Members(a) + CallerHandles(a)
        /\ kept # NoKept => held[kept.alloc] > 0 /\ strong[kept.alloc] > 0)
  /\ [][ \A a \in 1..Len(heap) :
           /\ heap'[a] = heap[a]
           /\ strong[a] = 0 => strong'[a] = 0 /\ Members(a)' = 0 /\ CallerHandles(a)' = 0
           /\ held[a] > 0 /\ (\E e \in Engines : XClear(e) \/ XDrop(e) \/ XIntoSet(e))
                => held'[a] = held[a] /\ strong'[a] > 0
       ]_vars

\* C21 witness: an engine and its clone were cleared or dropped; the handle the
\* caller kept is the last one to its allocation, and the other allocation,
\* which nothing held any more, is released
C21_Witness ==
  /\ kept # NoKept /\ kept.cleared
  /\ Members(kept.alloc) = 0 /\ strong[kept.alloc] = 1
  /\ \E e \in Engines : kind[e] = "gone"
  /\ \E a \in 1..Len(heap) : strong[a] = 0

\* ---- comparisons of shared engines, an engine with itself included ----

\* two shared engines that the threads intern into and compare, in either
\* order and each with itself
NextCmp ==
  \/ \E t \in Threads, e \in Engines, v \in Texts : SCall(t, e, "sync", v)
  \/ \E t \in Threads : Acquire(t)
  \/ \E t \in Threads : SGet(t)
  \/ \E t \in Threads : SIns(t)
  \/ \E t \in Threads : DropGuard(t)
  \/ \E t \in Threads, a, b \in Engines : SEqCall(t, a, b)
  \/ \E t \in Threads : Acquire2(t)
  \/ \E t \in Threads : SEqDone(t)
  \/ \E t \in Threads : Unwind(t)

SpecCmp == InitEq /\ [][NextCmp]_vars

\* threads t and u each hold the lock of one engine and wait for the other's
LockCycle(t, u) ==
  /\ t # u
  /\ pc[t] = "lock2" /\ pc[u] = "lock2"
  /\ owner[teng[t]] = t /\ owner[toth[t]] = u
  /\ owner[teng[u]] = u /\ owner[toth[u]] = t

\* C22: a comparison of shared engines that are not poisoned returns: no
\* comparison blocks for ever on a lock its own thread holds, none panics
\* (nothing else poisons an engine here), and no two comparisons wait for each
\* other's lock.
C22_EqNeverBlocks ==
  /\ \A t \in Threads : pc[t] # "stuck"
  /\ \A e \in Engines : ~poisoned[e]
  /\ \A t, u \in Threads : ~LockCycle(t, u)

\* C22 witness (what the code does for a == b against b == a): each thread
\* has the lock of its left operand and waits for the other's
C22_Witness == \E t, u \in Threads : LockCycle(t, u)

\* ---- a poisoned engine met by a call on another engine ----

\* Two shared engines.  Engine 2 can be poisoned: a thread panics inside its
\* LockedInterner's scope.  Engine 1 is compared with it (==, != take the same
\* locks), in either order, and is cloned from it.
NextPoison ==
  \/ \E t \in Threads, v \in Texts : SCall(t, 1, "sync", v)
  \/ \E t \in Threads, v \in Texts : SCall(t, 2, "locked", v)
  \/ \E t \in Threads : Acquire(t)
  \/ \E t \in Threads : SGet(t)
  \/ \E t \in Threads : SIns(t)
  \/ \E t \in Threads : DropGuard(t)
  \/ \E t \in Threads : teng[t] = 2 /\ op[t] = "locked" /\ Fault(t)
  \/ \E t \in Threads : Unwind(t)
  \/ \E t \in Threads, a, b \in Engines : a # b /\ SEqCall(t, a, b)
  \/ \E t \in Threads : SCloneFromCall(t, 1, 2)
  \/ \E t \in Threads : Acquire2(t)
  \/ \E t \in Threads : SEqDone(t)
  \/ \E t \in Threads : SCloneFromDone(t)

SpecPoison == InitEq /\ [][NextPoison]_vars

\* C23: a call that panics because the other engine of the call is poisoned
\* leaves the poison flag of every engine as it was.
C23_PoisonIsolated ==
  [][ \A t \in Threads :
        pc[t] = "lock2" /\ toth[t] # teng[t] /\ poisoned[toth[t]] /\ pc'[t] = "panicked"
          => poisoned' = poisoned
    ]_vars

\* C23 witness (what the code does): engine 1, in whose scope no thread ever
\* panicked, is poisoned: a comparison with, or a clone_from of, the poisoned
\* engine 2 panicked while it held the guard of engine 1
C23_Witness ==
  /\ poisoned[1] /\ poisoned[2]
  /\ \E t \in Threads : pc[t] = "panicked"

\* what an intern of content s leaves alone, S being the set before and S2 after
InternFrame(S, S2, s) ==
  /\ S \subseteq S2
  /\ \A a \in S2 : heap'[a].text # s => a \in S
  /\ \A a \in 1..Len(heap) : heap'[a] = heap[a]
  /\ Hit(S, s) => S2 = S

\* C24: an intern of s removes no entry, leaves every entry of another content
\* in the set with the allocation it had, adds no entry of another content,
\* touches no other engine's set, and on a hit leaves its own set as it was.
C24_InternFrame ==
  [][ /\ \A e \in Engines, v \in Texts :
           kind[e] = "Interner" /\ XIntern(e, v)
             => /\ InternFrame(strings[e], strings'[e], AsRef(v))
                /\ \A f \in Engines \ {e} : strings'[f] = strings[f]
      /\ \A t \in Threads :
           pc[t] \in {"get", "ins"} /\ (SGet(t) \/ SIns(t))
             => /\ InternFrame(strings[teng[t]], strings'[teng[t]], targ[t])
                /\ \A f \in Engines \ {teng[t]} : strings'[f] = strings[f]
    ]_vars

\* C24 witness: an intern on the shared engine is returning the latest
\* allocation, and the handle of another content that the caller kept from
\* before is still in the set
C24_Witness ==
  /\ pc[1] = "drop" /\ res[1] # None /\ res[1] = Len(heap)
  /\ kept # NoKept /\ kept.eng = teng[1] /\ kept.alloc # res[1]
  /\ Text(kept.alloc) # Text(res[1])
  /\ {kept.alloc, res[1]} \subseteq strings[teng[1]]

\* ---- clones ----

\* an engine of either type and its clone: they are interned into, cleared and
\* cloned from each other (the shared ones by one thread)
NextClone ==
  \/ kind[1] = "none" /\ XNew
  \/ \E e \in Engines, v \in Texts : XIntern(e, v)
  \/ \E e \in Engines : XClear(e)
  \/ kind[2] = "none" /\ XClone(1)
  \/ \E d, s \in Engines : XCloneFrom(d, s)
  \/ \E e \in Engines, o \in {"sync", "clear"}, v \in Texts : SCall(1, e, o, v)
  \/ Acquire(1)
  \/ SGet(1)
  \/ SIns(1)
  \/ SClear(1)
  \/ DropGuard(1)
  \/ kind[2] = "none" /\ SCloneCall(1, 1)
  \/ SCloneDone(1)
  \/ \E d, s \in Engines : SCloneFromCall(1, d, s)
  \/ Acquire2(1)
  \/ SCloneFromDone(1)

SpecClone == (Init \/ InitS) /\ [][NextClone]_vars

\* C25: when clone returns, the new engine equals the one it was cloned from,
\* and so does the target of clone_from equal its source; an intern or a clear
\* on an engine changes the set of no other engine, a clone or a source of it
\* included.
C25_CloneEqualIndependent ==
  [][ /\ \A e \in Engines :
           kind[e] = "Interner" /\ XClone(e)
             => SetEq(strings'[NewId], strings'[e]) /\ strings'[e] = strings[e]
      /\ \A d, s \in Engines :
           kind[d] = "Interner" /\ XCloneFrom(d, s)
             => SetEq(strings'[d], strings'[s]) /\ strings'[s] = strings[s]
      /\ \A t \in Threads :
           /\ pc[t] = "clone" /\ SCloneDone(t)
                => SetEq(strings'[NewId], strings'[teng[t]]) /\ strings'[teng[t]] = strings[teng[t]]
           /\ pc[t] = "copy" /\ SCloneFromDone(t)
                => SetEq(strings'[teng[t]], strings'[toth[t]]) /\ strings'[toth[t]] = strings[toth[t]]
           /\ pc[t] \in {"get", "ins", "clear"} /\ (SGet(t) \/ SIns(t) \/ SClear(t))
                => \A f \in Engines \ {teng[t]} : strings'[f] = strings[f]
      /\ \A e \in Engines :
           kind[e] = "Interner" /\ ((\E v \in Texts : XIntern(e, v)) \/ XClear(e))
             => \A f \in Engines \ {e} : strings'[f] = strings[f]
    ]_vars

\* C25 witness: an engine shares an allocation with its clone (or its
\* clone_from source), and one of the two has since been interned into or
\* cleared: their sets differ and the other still has the shared entry
C25_Witness ==
  \E e, c \in Engines :
    /\ e # c /\ kind[e] = kind[c] /\ seeded[c]
    /\ strings[c] # {} /\ strings[c] \subseteq strings[e] /\ strings[e] # strings[c]

====
